---- MODULE Spec2Model ----
(***************************************************************************)
(* Model of ecr-scan-image: main() of src/index.js (lines 229-335) and the *)
(* helpers it calls, run against an ECR service whose answers are chosen   *)
(* nondeterministically.  One invocation of the action is one behaviour.   *)
(***************************************************************************)
EXTENDS Integers, Sequences, FiniteSets, TLC

(* ---------------------------------------------------------------- bounds *)
MaxPolls == 3        \* status polls the loop may issue before the model stops
MaxFindings == 2     \* findings the image scan may hold
MaxIgnore == 2       \* identifiers in the ignore list
ServicePageLen == 1  \* records the service puts in one page of findings

(* ------------------------------------------------------ program constants *)
maxResults == 1000   \* page size getAllFindings asks for
PollDelayMs == 5000  \* setTimeout delay between two polls

(* ------------------------------------------------------------ value sets *)
\* fail_threshold values main accepts
ValidThresholds == {"critical", "high", "medium", "low", "informational"}

\* fail_threshold inputs tried: the valid ones, the empty input, an invalid one
ThresholdInputs == ValidThresholds \cup {"", "severe"}

\* error_missed_ignores values action.yml documents; "error" is the default
PolicyInputs == {"error", "warn"}

\* imageScanStatus.status values the service may report
ScanStatuses == {"IN_PROGRESS", "PENDING", "COMPLETE", "ACTIVE", "FAILED",
                 "UNSUPPORTED_IMAGE"}

\* imageScanStatus.description values of a failed scan
Descriptions == {"scan timed out", "image corrupt"}

\* keys of findingSeverityCounts main reads
CountKeys == {"CRITICAL", "HIGH", "MEDIUM", "LOW", "INFORMATIONAL", "UNDEFINED"}

\* severities the findings of the scanned image carry: four of the six main
\* reads, and one it does not know
FindingSeverities == {"CRITICAL", "HIGH", "MEDIUM", "UNDEFINED", "UNTRIAGED"}

\* vulnerability identifiers
CveIds == {"CVE-A", "CVE-B"}

\* error codes of a failed describeImageScanFindings call
ErrorCodes == {"ScanNotFoundException", "NetworkingError"}

\* error codes of a failed startImageScan call
StartErrorCodes == {"AlreadyInProgress", "NetworkingError"}

FindingRecords == [name : CveIds, severity : FindingSeverities]

RECURSIVE SeqsUpTo(_, _)
SeqsUpTo(S, n) ==
  IF n = 0 THEN {<<>>}
  ELSE LET shorter == SeqsUpTo(S, n - 1)
       IN  shorter \cup {Append(q, x) : q \in {p \in shorter : Len(p) = n - 1}, x \in S}

\* finding lists a scan of the image may hold: a vulnerability may be found
\* more than once (in several packages), with the one severity it has
ImageFindingLists ==
  {s \in SeqsUpTo(FindingRecords, MaxFindings) :
     \A i, j \in 1..Len(s) : s[i].name = s[j].name => s[i].severity = s[j].severity}

\* ignore lists parseIgnoreList may return: tokens, none of them empty
IgnoreLists == SeqsUpTo(CveIds, MaxIgnore)

(* ------------------------------------------------------- sequence helpers *)
\* Array.prototype.includes
includes(s, x) == \E i \in 1..Len(s) : s[i] = x

\* number of elements of s equal to x
CountOf(s, x) == Cardinality({i \in 1..Len(s) : s[i] = x})

Min(a, b) == IF a < b THEN a ELSE b

(* -------------------------------------------------------- service answers *)
\* null, as getFindings returns it for a scan that was never requested
Null == [status |-> "null", description |-> "", findingSeverityCounts |-> <<>>]

\* number of findings of list fl with severity sev
RECURSIVE SeverityCount(_, _)
SeverityCount(fl, sev) ==
  IF fl = <<>> THEN 0
  ELSE (IF Head(fl).severity = sev THEN 1 ELSE 0) + SeverityCount(Tail(fl), sev)

\* findingSeverityCounts the service reports for the findings fl: a map that
\* holds a key only for a severity that occurs
SeverityCountsOf(fl) ==
  [sev \in {s \in FindingSeverities : SeverityCount(fl, s) > 0} |->
     SeverityCount(fl, sev)]

\* a describeImageScanFindings response for a scan with status st
Snapshot(st, desc, fl) ==
  [status |-> st, description |-> desc, findingSeverityCounts |-> SeverityCountsOf(fl)]

\* the answers the service may give to a status query: an error, or a snapshot;
\* the snapshot of a complete scan comes with the findings fl the scan holds
\* (the summary counts are modelled for this status only, the one whose counts
\* main reads)
StatusResponses ==
  {[ok |-> FALSE, code |-> c, status |-> "", description |-> "", scanned |-> <<>>] :
     c \in ErrorCodes}
  \cup {[ok |-> TRUE, code |-> "", status |-> st, description |-> "", scanned |-> <<>>] :
     st \in ScanStatuses \ {"COMPLETE", "FAILED"}}
  \cup {[ok |-> TRUE, code |-> "", status |-> "FAILED", description |-> d, scanned |-> <<>>] :
     d \in Descriptions}
  \cup {[ok |-> TRUE, code |-> "", status |-> "COMPLETE", description |-> "", scanned |-> fl] :
     fl \in ImageFindingLists}

\* continuation cursors of the findings listing
EMPTY == [kind |-> "EMPTY", pos |-> 0]
undefined == [kind |-> "undefined", pos |-> 0]
Token(i) == [kind |-> "token", pos |-> i]

\* the page of findings the service returns for a request with cursor nextToken
ServicePage(fl, nextToken) ==
  LET first == IF nextToken.kind = "token" THEN nextToken.pos ELSE 1
      last  == Min(first + Min(maxResults, ServicePageLen) - 1, Len(fl))
  IN  [findings  |-> SubSeq(fl, first, last),
       nextToken |-> IF last < Len(fl) THEN Token(last + 1) ELSE undefined]

(* ------------------------------------------------- functions of index.js *)
\* getFindings of the first release: every failure of the call reads as "no scan"
getFindingsCatchAll(resp) ==
  IF resp.ok
  THEN [threw |-> FALSE, code |-> "",
        value |-> Snapshot(resp.status, resp.description, resp.scanned)]
  ELSE [threw |-> FALSE, code |-> "", value |-> Null]

\* getFindings: the snapshot, null for ScanNotFoundException, any other error rethrown
getFindings(resp) ==
  IF resp.ok
  THEN [threw |-> FALSE, code |-> "",
        value |-> Snapshot(resp.status, resp.description, resp.scanned)]
  ELSE IF resp.code = "ScanNotFoundException"
       THEN [threw |-> FALSE, code |-> "", value |-> Null]
       ELSE [threw |-> TRUE, code |-> resp.code, value |-> Null]

\* the validation of fail_threshold, left out
isValidThresholdAny(t) == TRUE

\* the validation of fail_threshold
isValidThreshold(t) == t \in ValidThresholds

\* the test of the first answer for a failed scan, never true
scanFailedNever(st) == FALSE

\* the test of the first answer for a failed scan
scanFailed(st) == st = "FAILED"

\* the test of the first answer for a scan that exists, never true
scanExistsNever(value) == FALSE

\* the test of the first answer for a scan that exists: `if (findings)`
scanExists(value) == value # Null

\* the poll loop's condition, true of every status
keepPollingAlways(st) == TRUE

\* the poll loop's condition
keepPolling(st) == st = "IN_PROGRESS"

\* the loop's test for a wait, true of every turn
needsWaitAlways(first) == TRUE

\* the loop's test for a wait before the poll: `if (!firstPoll)`
needsWait(first) == ~first

\* the sanity check after the loop, without its test
scanSucceededAny(st) == TRUE

\* the sanity check after the loop: the status main goes on with
scanSucceeded(st) == st = "COMPLETE"

\* String.prototype.toLowerCase on the severities the service sends
toLowerCase(sev) ==
  CASE sev = "CRITICAL"      -> "critical"
    [] sev = "HIGH"          -> "high"
    [] sev = "MEDIUM"        -> "medium"
    [] sev = "LOW"           -> "low"
    [] sev = "INFORMATIONAL" -> "informational"
    [] sev = "UNDEFINED"     -> "undefined"
    [] sev = "UNTRIAGED"     -> "untriaged"

\* the keys countIgnoredFindings starts its tally with, total aside
TallyKeys == {"critical", "high", "medium", "low", "informational", "undefined"}

\* the tally countIgnoredFindings starts from; NaNKeys are the keys it adds
\* later, whose value is NaN (undefined++)
ZeroCounts ==
  [critical |-> 0, high |-> 0, medium |-> 0, low |-> 0, informational |-> 0,
   undefined |-> 0, total |-> 0, NaNKeys |-> {}]

\* countIgnoredFindings: tally of the findings by lower-cased severity
RECURSIVE countIgnoredFindings(_)
countIgnoredFindings(fl) ==
  IF fl = <<>> THEN ZeroCounts
  ELSE LET n        == Len(fl)
           counts   == countIgnoredFindings(SubSeq(fl, 1, n - 1))
           severity == toLowerCase(fl[n].severity)
           bumped   == IF severity \in TallyKeys
                       THEN [counts EXCEPT ![severity] = @ + 1]
                       ELSE [counts EXCEPT !.NaNKeys = @ \cup {severity}]
       IN  [bumped EXCEPT !.total = @ + 1]

\* counts.KEY read without a default: an absent key counts as one
CountOr1(counts, key) == IF key \in DOMAIN counts THEN counts[key] ELSE 1

\* counts.KEY || 0
CountOr0(counts, key) == IF key \in DOMAIN counts THEN counts[key] ELSE 0

\* the ignored findings, gathered per entry of the ignore list: a finding is
\* taken once for each entry that names it
RECURSIVE ignoredOfPerEntry(_, _)
ignoredOfPerEntry(fl, il) ==
  IF il = <<>> THEN <<>>
  ELSE SelectSeq(fl, LAMBDA f : f.name = Head(il)) \o ignoredOfPerEntry(fl, Tail(il))

\* the ignored findings: those of findingsList whose name the ignore list includes
ignoredOf(fl, il) == SelectSeq(fl, LAMBDA f : includes(il, f.name))

\* the names of the findings fl
RECURSIVE names(_)
names(fl) == IF fl = <<>> THEN <<>> ELSE <<Head(fl).name>> \o names(Tail(fl))

\* missedIgnores: the ignore-list entries that name no ignored finding
missedIgnoresOf(il, ignoredFl) ==
  SelectSeq(il, LAMBDA n : ~includes(names(ignoredFl), n))

\* the test that raises the ignore-list error
ignoreListMismatch(il, ignoredFl) == Len(il) # Len(ignoredFl)

\* the six counts, the ignored count and the total main derives from the snapshot
countsOf(snapshot, ignoredFl) ==
  LET c == snapshot.findingSeverityCounts
      critical      == CountOr0(c, "CRITICAL")
      high          == CountOr0(c, "HIGH")
      medium        == CountOr0(c, "MEDIUM")
      low           == CountOr0(c, "LOW")
      informational == CountOr0(c, "INFORMATIONAL")
      indeterminate == CountOr0(c, "UNDEFINED")
  IN  [critical |-> critical, high |-> high, medium |-> medium, low |-> low,
       informational |-> informational, indeterminate |-> indeterminate,
       ignored |-> Len(ignoredFl),
       total |-> critical + high + medium + low + informational + indeterminate]

\* numFailingVulns, with the medium findings left out of the low threshold
numFailingVulnsOfLowSkipsMedium(threshold, c, ignoredCounts) ==
  IF threshold = "informational" THEN c.total - ignoredCounts.informational
  ELSE IF threshold = "low"
       THEN c.critical + c.high + c.low - ignoredCounts.low
  ELSE IF threshold = "medium"
       THEN c.critical + c.high + c.medium - ignoredCounts.medium
  ELSE IF threshold = "high" THEN c.critical + c.high - ignoredCounts.high
  ELSE c.critical - ignoredCounts.critical

\* numFailingVulns
numFailingVulnsOf(threshold, c, ignoredCounts) ==
  IF threshold = "informational" THEN c.total - ignoredCounts.informational
  ELSE IF threshold = "low"
       THEN c.critical + c.high + c.medium + c.low - ignoredCounts.low
  ELSE IF threshold = "medium"
       THEN c.critical + c.high + c.medium - ignoredCounts.medium
  ELSE IF threshold = "high" THEN c.critical + c.high - ignoredCounts.high
  ELSE c.critical - ignoredCounts.critical

\* the test that raises the threshold error
thresholdExceeded(n) == n > 0

(* ------------------------------------------------------------------ state *)
VARIABLES
  pc,              \* where main is: the await it is suspended at, or "exit"
  inputs,          \* the action's inputs fail_threshold, ignore_list and
                   \* error_missed_ignores
  cancelRequested, \* environment: the caller has asked the run to stop
  failThreshold,   \* main's failThreshold
  ignoreList,      \* main's ignoreList
  status,          \* main's status
  findings,        \* main's findings: the last snapshot, or Null
  firstPoll,       \* main's firstPoll
  scanned,         \* service side: the findings the finished scan holds
  NextMarker,      \* getPaginatedResults' cursor
  findingsList,    \* the records fetched so far, then main's findingsList
  ignoredFindings, \* main's ignoredFindings
  missedIgnores,   \* main's missedIgnores, as logged
  ignoredCounts,   \* main's ignoredCounts
  counted,         \* main's critical .. total and ignored
  outputs,         \* what core.setOutput has emitted
  numFailingVulns, \* main's numFailingVulns
  failed,          \* the message given to core.setFailed, <<>> if none
  trace,           \* the remote calls, waits and reports made so far, in order
  firstAnswer      \* how the first status query was answered

vars == <<pc, inputs, cancelRequested, failThreshold, ignoreList, status, findings, firstPoll,
          scanned, NextMarker, findingsList, ignoredFindings, missedIgnores,
          ignoredCounts, counted, outputs, numFailingVulns, failed, trace,
          firstAnswer>>

pollVars == <<status, findings, firstPoll, scanned, firstAnswer>>
fetchVars == <<NextMarker, findingsList>>
resultVars == <<ignoredFindings, missedIgnores, ignoredCounts, counted, outputs,
                numFailingVulns>>
inputVars == <<inputs, cancelRequested, failThreshold, ignoreList>>

NoCounts ==
  [critical |-> 0, high |-> 0, medium |-> 0, low |-> 0, informational |-> 0,
   indeterminate |-> 0, ignored |-> 0, total |-> 0]

\* the state main starts in, with error_missed_ignores drawn from policies
InitWith(policies) ==
  /\ pc = "main"
  /\ inputs \in [fail_threshold : ThresholdInputs, ignore_list : IgnoreLists,
                 error_missed_ignores : policies]
  /\ cancelRequested = FALSE
  /\ failThreshold = ""
  /\ ignoreList = <<>>
  /\ status = "null"
  /\ findings = Null
  /\ firstPoll = TRUE
  /\ scanned = <<>>
  /\ NextMarker = EMPTY
  /\ findingsList = <<>>
  /\ ignoredFindings = <<>>
  /\ missedIgnores = <<>>
  /\ ignoredCounts = ZeroCounts
  /\ counted = NoCounts
  /\ outputs = <<>>
  /\ numFailingVulns = 0
  /\ failed = <<>>
  /\ trace = <<>>
  /\ firstAnswer = "none"

\* the invocation with error_missed_ignores left at its default
Init == InitWith({"error"})

\* the invocation with either value of error_missed_ignores
InitPolicy == InitWith(PolicyInputs)

\* number of times event e is in the trace
Calls(e) == CountOf(trace, e)

\* main throws: the wrapper catches and reports error.message
Throw(message, done) ==
  /\ pc' = "exit"
  /\ failed' = message
  /\ trace' = trace \o done \o <<"setFailed">>

\* what the trace records of a describeImageScanFindings call: the call, and
\* "rejected" when the service fails it with anything but ScanNotFoundException
Answered(call, resp) ==
  IF resp.ok \/ resp.code = "ScanNotFoundException"
  THEN <<call>>
  ELSE <<call, "rejected">>

\* parseIgnoreList on an input that is an array already (or empty): returned as
\* it is; the splitting of a string input is not modelled
parseIgnoreList(list) == list

\* main up to its first await: read and validate the inputs
ReadInputs ==
  /\ pc = "main"
  /\ failThreshold' = IF inputs.fail_threshold = "" THEN "high"
                      ELSE inputs.fail_threshold
  /\ ignoreList' = parseIgnoreList(inputs.ignore_list)
  /\ IF ~isValidThreshold(failThreshold')
     THEN Throw(<<"fail_threshold input value is invalid">>, <<>>)
     ELSE /\ pc' = "check_existing"
          /\ UNCHANGED <<failed, trace>>
  /\ UNCHANGED <<inputs, cancelRequested, pollVars, fetchVars, resultVars>>

\* the first status query and the branch on its answer
CheckExisting ==
  /\ pc = "check_existing"
  /\ \E resp \in StatusResponses :
       LET r == getFindings(resp) IN
       /\ firstAnswer' = IF resp.ok THEN "snapshot"
                         ELSE IF resp.code = "ScanNotFoundException" THEN "notfound"
                         ELSE "error"
       /\ scanned' = resp.scanned
       /\ IF r.threw
          THEN /\ Throw(<<"ServiceError", r.code>>,
                        Answered("describeImageScanFindings", resp))
               /\ UNCHANGED <<status, findings>>
          ELSE /\ findings' = r.value
               /\ IF scanExists(r.value)
                  THEN /\ status' = r.value.status
                       /\ IF scanFailed(r.value.status)
                          THEN Throw(<<"Image scan failed", r.value.description>>,
                                     Answered("describeImageScanFindings", resp))
                          ELSE /\ pc' = "while"
                               /\ trace' = trace \o Answered("describeImageScanFindings", resp)
                               /\ UNCHANGED failed
                  ELSE /\ pc' = "start_scan"
                       /\ trace' = trace \o Answered("describeImageScanFindings", resp)
                       /\ UNCHANGED <<status, failed>>
  /\ UNCHANGED <<inputVars, firstPoll, fetchVars, resultVars>>

\* where main goes once startImageScan has resolved
afterStartRequery == "check_existing"

\* where main goes once startImageScan has resolved
afterStart == "while"

\* the start-scan request
StartImageScan ==
  /\ pc = "start_scan"
  /\ \/ /\ status' = "IN_PROGRESS"
        /\ pc' = afterStart
        /\ trace' = Append(trace, "startImageScan")
        /\ UNCHANGED failed
     \/ /\ \E code \in StartErrorCodes :
             Throw(<<"ServiceError", code>>, <<"startImageScan">>)
        /\ UNCHANGED status
  /\ UNCHANGED <<inputVars, findings, firstPoll, scanned, firstAnswer, fetchVars,
                 resultVars>>

\* the test of the poll loop
While ==
  /\ pc = "while"
  /\ pc' = IF keepPolling(status)
           THEN (IF needsWait(firstPoll) THEN "sleep" ELSE "poll")
           ELSE "sanity"
  /\ UNCHANGED <<inputVars, pollVars, fetchVars, resultVars, failed, trace>>

\* the wait between two polls
Sleep ==
  /\ pc = "sleep"
  /\ pc' = "poll"
  /\ trace' = Append(trace, "setTimeout")
  /\ UNCHANGED <<inputVars, pollVars, fetchVars, resultVars, failed>>

\* one poll of the loop
Poll ==
  /\ pc = "poll"
  /\ Calls("poll") < MaxPolls
  /\ \E resp \in StatusResponses :
       LET r == getFindings(resp) IN
       /\ scanned' = resp.scanned
       /\ IF r.threw
          THEN /\ Throw(<<"ServiceError", r.code>>, Answered("poll", resp))
               /\ UNCHANGED <<status, findings, firstPoll>>
          ELSE /\ findings' = r.value
               /\ IF r.value = Null
                  THEN /\ Throw(<<"TypeError">>, Answered("poll", resp))
                       /\ UNCHANGED <<status, firstPoll>>
                  ELSE /\ status' = r.value.status
                       /\ firstPoll' = FALSE
                       /\ pc' = "while"
                       /\ trace' = trace \o Answered("poll", resp)
                       /\ UNCHANGED failed
  /\ UNCHANGED <<inputVars, firstAnswer, fetchVars, resultVars>>

\* the choice to fetch the findings, always taken
fetchAllAlways(il) == TRUE

\* the choice to fetch the findings: only with an ignore list
fetchAll(il) == Len(il) # 0

\* the sanity check after the loop, and the choice to fetch the findings
SanityCheck ==
  /\ pc = "sanity"
  /\ IF ~scanSucceeded(status)
     THEN /\ Throw(<<"Unhandled scan status", status, findings>>, <<>>)
          /\ UNCHANGED fetchVars
     ELSE /\ pc' = IF fetchAll(ignoreList) THEN "fetch" ELSE "reconcile"
          /\ NextMarker' = EMPTY
          /\ findingsList' = <<>>
          /\ UNCHANGED <<failed, trace>>
  /\ UNCHANGED <<inputVars, pollVars, resultVars>>

\* the answers the service may give to a request for a page of findings
PageResponses ==
  {[ok |-> TRUE, code |-> ""]} \cup {[ok |-> FALSE, code |-> c] : c \in ErrorCodes}

\* the cursor sent with a request for a page
requestToken(marker) == IF marker # EMPTY THEN marker ELSE undefined

\* the condition of getPaginatedResults' loop, stopping after the first page
morePagesNever(marker) == FALSE

\* the condition of getPaginatedResults' loop
morePages(marker) == marker # undefined \/ marker = EMPTY

\* one turn of getPaginatedResults' loop: getAllFindings' request for a page
FetchPage ==
  /\ pc = "fetch"
  /\ \E resp \in PageResponses :
       LET nextToken == requestToken(NextMarker)
           page      == ServicePage(scanned, nextToken)
       IN
       IF ~resp.ok
       THEN /\ IF resp.code = "ScanNotFoundException"
               THEN Throw(<<"TypeError">>, Answered("page", resp))
               ELSE Throw(<<"ServiceError", resp.code>>, Answered("page", resp))
            /\ UNCHANGED fetchVars
       ELSE /\ findingsList' = findingsList \o page.findings
            /\ NextMarker' = page.nextToken
            /\ pc' = IF morePages(page.nextToken) THEN "fetch" ELSE "reconcile"
            /\ trace' = Append(trace, "page")
            /\ UNCHANGED failed
  /\ UNCHANGED <<inputVars, pollVars, resultVars>>

\* match the ignore list against the findings
Reconcile ==
  /\ pc = "reconcile"
  /\ ignoredFindings' = ignoredOf(findingsList, ignoreList)
  /\ IF ignoreListMismatch(ignoreList, ignoredFindings')
     THEN /\ missedIgnores' = missedIgnoresOf(ignoreList, ignoredFindings')
          /\ Throw(<<"Ignore list contains CVE IDs that were not returned">>, <<>>)
     ELSE /\ pc' = "aggregate"
          /\ UNCHANGED <<missedIgnores, failed, trace>>
  /\ UNCHANGED <<inputVars, pollVars, fetchVars, ignoredCounts, counted, outputs,
                 numFailingVulns>>

\* Number.prototype.toString
toString(n) == ToString(n)

\* the outputs main sets, without the ignored count
outputsOfNoIgnored(c) ==
  [critical      |-> toString(c.critical),
   high          |-> toString(c.high),
   medium        |-> toString(c.medium),
   low           |-> toString(c.low),
   informational |-> toString(c.informational),
   undefined     |-> toString(c.indeterminate),
   total         |-> toString(c.total)]

\* the outputs main sets from its counts
outputsOf(c) ==
  [critical      |-> toString(c.critical),
   high          |-> toString(c.high),
   medium        |-> toString(c.medium),
   low           |-> toString(c.low),
   informational |-> toString(c.informational),
   undefined     |-> toString(c.indeterminate),
   ignored       |-> toString(c.ignored),
   total         |-> toString(c.total)]

\* count the findings and emit the outputs
Aggregate ==
  /\ pc = "aggregate"
  /\ ignoredCounts' = countIgnoredFindings(ignoredFindings)
  /\ counted' = countsOf(findings, ignoredFindings)
  /\ outputs' = outputsOf(counted')
  /\ pc' = "evaluate"
  /\ trace' = Append(trace, "setOutput")
  /\ UNCHANGED <<inputVars, pollVars, fetchVars, ignoredFindings, missedIgnores,
                 numFailingVulns, failed>>

\* compare the failing count with zero
Evaluate ==
  /\ pc = "evaluate"
  /\ numFailingVulns' = numFailingVulnsOf(failThreshold, counted, ignoredCounts)
  /\ IF thresholdExceeded(numFailingVulns')
     THEN Throw(<<"Detected vulnerabilities", numFailingVulns', failThreshold>>, <<>>)
     ELSE /\ pc' = "exit"
          /\ UNCHANGED <<failed, trace>>
  /\ UNCHANGED <<inputVars, pollVars, fetchVars, ignoredFindings, missedIgnores,
                 ignoredCounts, counted, outputs>>

Next ==
  \/ ReadInputs
  \/ CheckExisting
  \/ StartImageScan
  \/ While
  \/ Sleep
  \/ Poll
  \/ SanityCheck
  \/ FetchPage
  \/ Reconcile
  \/ Aggregate
  \/ Evaluate

Spec == Init /\ [][Next]_vars

\* the invocation under either missed-ignore policy
SpecPolicy == InitPolicy /\ [][Next]_vars

\* the invocation on an event loop that runs every continuation that is ready:
\* a resolved promise or an expired timer resumes main
SpecLive == Init /\ [][Next]_vars /\ WF_vars(Next)

\* the caller asks the run to stop; nothing in main reads the request
Cancel ==
  /\ pc # "exit"
  /\ ~cancelRequested
  /\ cancelRequested' = TRUE
  /\ UNCHANGED <<pc, inputs, failThreshold, ignoreList, pollVars, fetchVars,
                 resultVars, failed, trace>>

NextCancel ==
  \/ Next
  \/ Cancel

\* the invocation with a caller that may ask it to stop at any moment
SpecCancel == Init /\ [][NextCancel]_vars

(* ----------------------------------------------------------------- claims *)
\* main has ended with the error whose message starts with kind
FailedWith(kind) == Len(failed) > 0 /\ failed[1] = kind

\* the threshold evaluation has run
Evaluated == pc = "exit" /\ Calls("setOutput") = 1

\* the phases of main before the sanity check has passed
PollPhases == {"main", "check_existing", "start_scan", "while", "sleep", "poll", "sanity"}

\* C1: in one invocation at most one start-scan request is issued, whatever
\* the service answers and however many polls follow.
C1_AtMostOneStart == Calls("startImageScan") <= 1

C1_Witness == Calls("startImageScan") = 1 /\ Calls("poll") >= 2

\* C2: when the first status query returns a snapshot no start-scan request is
\* issued; a start-scan request is issued only after a not-found answer.
C2_StartOnlyOnNotFound ==
  /\ firstAnswer = "snapshot" => Calls("startImageScan") = 0
  /\ Calls("startImageScan") > 0 => firstAnswer = "notfound"

C2_Witness ==
  /\ firstAnswer = "snapshot"
  /\ Calls("poll") >= 1
  /\ Calls("startImageScan") = 0
  /\ pc = "exit"

\* the calls that must not follow a report of a failed scan
RemoteWork == Calls("poll") + Calls("page") + Calls("setOutput") + Calls("setTimeout")

\* C3 as claimed: whenever the service reports status failed, on the first
\* query or on a later poll, the invocation ends with the scan-failed error
\* that carries the service's description.
C3_FailedAlwaysScanFailed ==
  (pc = "exit" /\ findings.status = "FAILED") =>
    /\ FailedWith("Image scan failed")
    /\ failed[2] = findings.description
    /\ outputs = <<>>
    /\ Calls("page") = 0

\* C3 amended: a failed status on the first query ends the invocation with the
\* scan-failed error carrying the service's description; a failed status on a
\* later poll ends it with the unhandled-status error carrying the status and
\* the snapshot (the description in it); in both cases no poll, wait, findings
\* fetch or output follows the report.
C3_FailedEndsInvocation ==
  /\ [](findings.status = "FAILED" =>
          /\ pc \in {"while", "sanity", "exit"}
          /\ outputs = <<>>
          /\ Calls("page") = 0
          /\ pc = "exit" =>
               IF Calls("poll") = 0
               THEN /\ FailedWith("Image scan failed")
                    /\ failed[2] = findings.description
               ELSE /\ FailedWith("Unhandled scan status")
                    /\ failed[2] = "FAILED"
                    /\ failed[3] = findings
                    /\ failed[3].description \in Descriptions)
  /\ [][findings.status = "FAILED" => RemoteWork' = RemoteWork]_vars

C3_Witness ==
  /\ pc = "exit"
  /\ findings.status = "FAILED"
  /\ Calls("poll") >= 2
  /\ FailedWith("Unhandled scan status")

\* C4 as claimed: neither a pending nor an in-progress status ends the poll
\* loop or produces an error.
C4_PendingKeepsPolling ==
  /\ pc = "sanity" => status \notin {"PENDING", "IN_PROGRESS"}
  /\ FailedWith("Unhandled scan status") => failed[2] \notin {"PENDING", "IN_PROGRESS"}

\* C5 as claimed: at the exit of the loop complete and active both lead on to
\* aggregation; every other status ends the invocation with the
\* unhandled-status error carrying the status and the last snapshot, with no
\* output.
C5_CompleteAndActiveGoOn ==
  /\ FailedWith("Unhandled scan status") =>
       /\ failed[2] \notin {"COMPLETE", "ACTIVE"}
       /\ failed[2] = status
       /\ failed[3] = findings
       /\ outputs = <<>>
  /\ pc \in {"fetch", "reconcile", "aggregate", "evaluate"} =>
       status \in {"COMPLETE", "ACTIVE"}

\* C6: no page of findings is requested before a status query has returned a
\* terminal success status, and none while the poll loop runs.
C6_FetchAfterSuccess ==
  Calls("page") > 0 =>
    /\ findings.status \in {"COMPLETE", "ACTIVE"}
    /\ status = findings.status
    /\ pc \notin PollPhases

C6_Witness == Calls("page") >= 2 /\ Calls("poll") >= 1 /\ pc = "reconcile"

Rank(level) ==
  CASE level = "critical"      -> 1
    [] level = "high"          -> 2
    [] level = "medium"        -> 3
    [] level = "low"           -> 4
    [] level = "informational" -> 5

\* the unignored findings of the levels critical down to threshold
UnignoredAtOrAbove(threshold, c, ic) ==
    (IF Rank("critical") <= Rank(threshold) THEN c.critical - ic.critical ELSE 0)
  + (IF Rank("high") <= Rank(threshold) THEN c.high - ic.high ELSE 0)
  + (IF Rank("medium") <= Rank(threshold) THEN c.medium - ic.medium ELSE 0)
  + (IF Rank("low") <= Rank(threshold) THEN c.low - ic.low ELSE 0)
  + (IF Rank("informational") <= Rank(threshold)
     THEN c.informational - ic.informational ELSE 0)

\* C7 as claimed: the failing count is the sum, over the levels from critical
\* down to the threshold, of total count minus ignored count.
C7_FailingCountIsCumulative ==
  Evaluated => numFailingVulns = UnignoredAtOrAbove(failThreshold, counted, ignoredCounts)

\* the counts, had the snapshot reported no finding of undefined severity
WithoutIndeterminate(c) ==
  [c EXCEPT !.indeterminate = 0, !.total = @ - c.indeterminate]

\* C8 as claimed: the count of findings of undefined severity changes neither
\* the failing count nor the verdict, for any threshold.
C8_IndeterminateNeverFails ==
  Evaluated =>
    LET n == numFailingVulnsOf(failThreshold, WithoutIndeterminate(counted), ignoredCounts)
    IN  /\ numFailingVulns = n
        /\ FailedWith("Detected vulnerabilities") <=> thresholdExceeded(n)

\* C9 as claimed: the invocation fails on the threshold if and only if the
\* number of unignored findings at or above the threshold is greater than
\* zero, and completes normally when it is zero.
C9_FailsIffUnignoredAboveThreshold ==
  Evaluated =>
    LET n == UnignoredAtOrAbove(failThreshold, counted, ignoredCounts)
    IN  /\ FailedWith("Detected vulnerabilities") <=> n > 0
        /\ n = 0 => failed = <<>>

\* the ignore list has been matched against the findings
Reconciled ==
  \/ pc \in {"aggregate", "evaluate"}
  \/ Evaluated
  \/ FailedWith("Ignore list contains CVE IDs that were not returned")

\* every identifier of the ignore list is the name of at least one finding
AllIgnoresMatch == \A i \in 1..Len(ignoreList) : includes(names(findingsList), ignoreList[i])

\* C10 as claimed: when every identifier of the ignore list names at least one
\* finding, no identifier is missing and no ignore-list error is raised.
C10_AllMatchedNoError ==
  (Reconciled /\ AllIgnoresMatch) =>
    /\ missedIgnores = <<>>
    /\ ~FailedWith("Ignore list contains CVE IDs that were not returned")

\* the error main raises for an ignore list that does not match the findings
IgnoreListError == "Ignore list contains CVE IDs that were not returned"

\* the entries of the ignore list that name no finding are all in missedIgnores
MissingReported ==
  \A i \in 1..Len(ignoreList) :
    ~includes(names(findingsList), ignoreList[i]) => includes(missedIgnores, ignoreList[i])

\* C11 as claimed: under the default policy, when an identifier of the ignore
\* list names no finding the invocation ends with the ignore-list error, the
\* identifier is reported as missing, and no counts are output.
C11_MissedIgnoreIsFatal ==
  (inputs.error_missed_ignores = "error" /\ Reconciled /\ ~AllIgnoresMatch) =>
    /\ FailedWith(IgnoreListError)
    /\ MissingReported
    /\ outputs = <<>>
    /\ Calls("setOutput") = 0

\* C12 as claimed: with error_missed_ignores set to warn, an ignore list that
\* does not match the findings does not end the invocation: it goes on to
\* aggregation and threshold evaluation.
C12_WarnContinues ==
  inputs.error_missed_ignores = "warn" => ~FailedWith(IgnoreListError)

\* C13: when the fail threshold is none of critical, high, medium, low,
\* informational, the invocation ends with the configuration error and has
\* issued no remote call.
C13_InvalidThresholdNoCalls ==
  (pc # "main" /\ failThreshold \notin {"critical", "high", "medium", "low", "informational"})
    => /\ pc = "exit"
       /\ FailedWith("fail_threshold input value is invalid")
       /\ trace = <<"setFailed">>

C13_Witness ==
  /\ inputs.fail_threshold = "severe"
  /\ FailedWith("fail_threshold input value is invalid")

\* C14: a status query or page fetch that the service fails with anything but
\* the not-found signal ends the invocation at once with that error: no call,
\* wait or start-scan request follows it.
C14_RejectedCallIsFatal ==
  \A i \in 1..Len(trace) :
    trace[i] = "rejected" =>
      /\ Len(trace) = i + 1
      /\ trace[i + 1] = "setFailed"
      /\ pc = "exit"
      /\ FailedWith("ServiceError")
      /\ failed[2] = "NetworkingError"

C14_Witness ==
  /\ Calls("rejected") = 1
  /\ Calls("poll") >= 1
  /\ Calls("page") >= 2
  /\ Calls("startImageScan") = 0
  /\ pc = "exit"

\* C15 as claimed: a start-scan request that fails with AlreadyInProgress is
\* treated as a success: the invocation does not fail with it.
C15_AlreadyInProgressIsSuccess ==
  ~(FailedWith("ServiceError") /\ failed[2] = "AlreadyInProgress")

\* C16 as claimed: the poll loop checks for a cancellation request before each
\* wait, and on a request ends the invocation with a cancellation error
\* instead of waiting and polling again.
C16_CancelStopsPolling ==
  [][(cancelRequested /\ pc = "sleep") => (pc' = "exit" /\ failed' = <<"Cancelled">>)]_vars

\* the failing count has been, or is about to be, computed from the counts
CountsReady == pc = "evaluate" \/ Evaluated

\* C17: for the counts and ignored counts of a run, the failing count does
\* not decrease as the threshold moves from critical towards informational.
C17_MonotonicInThreshold ==
  CountsReady =>
    \A t1, t2 \in ValidThresholds :
      Rank(t1) < Rank(t2) =>
        numFailingVulnsOf(t1, counted, ignoredCounts)
          <= numFailingVulnsOf(t2, counted, ignoredCounts)

C17_Witness ==
  /\ pc = "evaluate"
  /\ counted.ignored >= 1
  /\ numFailingVulnsOf("critical", counted, ignoredCounts)
       < numFailingVulnsOf("medium", counted, ignoredCounts)

\* C18: in a run that reaches threshold evaluation, the ignored count of each
\* severity is at most the total count of that severity, and the failing
\* count is not negative.
C18_IgnoredWithinTotals ==
  CountsReady =>
    /\ ignoredCounts.critical <= counted.critical
    /\ ignoredCounts.high <= counted.high
    /\ ignoredCounts.medium <= counted.medium
    /\ ignoredCounts.low <= counted.low
    /\ ignoredCounts.informational <= counted.informational
    /\ ignoredCounts.undefined <= counted.indeterminate
    /\ \A t \in ValidThresholds : numFailingVulnsOf(t, counted, ignoredCounts) >= 0
    /\ numFailingVulns >= 0

C18_Witness ==
  /\ Evaluated
  /\ ignoredCounts.high >= 1
  /\ ignoredCounts.high = counted.high
  /\ counted.critical >= 1
  /\ ignoredCounts.critical = 0

\* the number of pages the service splits n findings into
PagesOf(n) ==
  LET len == Min(maxResults, ServicePageLen)
  IN  IF n = 0 THEN 1 ELSE (n + len - 1) \div len

\* the fetch of the findings has run to its end
Fetched == Calls("page") > 0 /\ (pc \in {"reconcile", "aggregate", "evaluate"} \/ Reconciled)

\* C19: the fetch of all findings asks for the first page without a cursor
\* and for each later page with the cursor of the page before, stops at the
\* first page without a cursor, and returns the records of the pages in order,
\* none dropped, repeated or moved.
C19_FetchIsConcatenation ==
  /\ pc = "fetch" =>
       IF Calls("page") = 0
       THEN NextMarker = EMPTY /\ findingsList = <<>>
       ELSE /\ NextMarker.kind = "token"
            /\ NextMarker.pos <= Len(scanned)
            /\ findingsList = SubSeq(scanned, 1, NextMarker.pos - 1)
  /\ Fetched =>
       /\ findingsList = scanned
       /\ NextMarker = undefined
       /\ Calls("page") = PagesOf(Len(scanned))

C19_Witness ==
  /\ pc = "reconcile"
  /\ Calls("page") >= 2
  /\ Len(findingsList) >= 2
  /\ findingsList[1] # findingsList[2]

SixBuckets(t) == t.critical + t.high + t.medium + t.low + t.informational + t.undefined

\* the severities that have a bucket of their own
RankedSeverities == {"CRITICAL", "HIGH", "MEDIUM", "LOW", "INFORMATIONAL"}

\* C21 as claimed: in the tally of the ignored findings a record whose
\* severity is not a recognized one is counted in the indeterminate bucket,
\* and the tally's total is the sum of its six buckets.
C21_UnrecognizedIsIndeterminate ==
  CountsReady =>
    /\ ignoredCounts.total = SixBuckets(ignoredCounts)
    /\ ignoredCounts.undefined =
         Cardinality({i \in 1..Len(ignoredFindings) :
                        ignoredFindings[i].severity \notin RankedSeverities})

\* C22: for the terminal snapshot, each of the six severity buckets its
\* summary counts do not hold is output as zero, every other one as the count
\* the snapshot holds, and the total output is the sum of the six.
C22_AbsentBucketsAreZero ==
  Calls("setOutput") = 1 =>
    LET c == findings.findingSeverityCounts IN
    /\ outputs.critical = toString(IF "CRITICAL" \in DOMAIN c THEN c["CRITICAL"] ELSE 0)
    /\ outputs.high = toString(IF "HIGH" \in DOMAIN c THEN c["HIGH"] ELSE 0)
    /\ outputs.medium = toString(IF "MEDIUM" \in DOMAIN c THEN c["MEDIUM"] ELSE 0)
    /\ outputs.low = toString(IF "LOW" \in DOMAIN c THEN c["LOW"] ELSE 0)
    /\ outputs.informational =
         toString(IF "INFORMATIONAL" \in DOMAIN c THEN c["INFORMATIONAL"] ELSE 0)
    /\ outputs.undefined = toString(IF "UNDEFINED" \in DOMAIN c THEN c["UNDEFINED"] ELSE 0)
    /\ counted.total = counted.critical + counted.high + counted.medium + counted.low
                         + counted.informational + counted.indeterminate
    /\ outputs.total = toString(counted.total)

C22_Witness ==
  /\ Evaluated
  /\ "CRITICAL" \notin DOMAIN findings.findingSeverityCounts
  /\ "HIGH" \in DOMAIN findings.findingSeverityCounts
  /\ "UNDEFINED" \in DOMAIN findings.findingSeverityCounts
  /\ outputs.critical = "0"
  /\ outputs.total = "2"

\* C23 as claimed: after a not-found answer to the first query, while the
\* polls return pending or in-progress snapshots the run goes on without an
\* error; it issues one start-scan request, and the counts it aggregates are
\* those of the complete snapshot.
C23_StartThenPollToComplete ==
  (firstAnswer = "notfound" /\ Calls("rejected") = 0) =>
    /\ Calls("startImageScan") <= 1
    /\ findings.status \in {"PENDING", "IN_PROGRESS"} => Len(failed) = 0
    /\ Calls("setOutput") = 1 =>
         /\ Calls("startImageScan") = 1
         /\ findings.status = "COMPLETE"
         /\ counted = countsOf(Snapshot("COMPLETE", "", scanned), ignoredFindings)

\* C24 as claimed: a poll made after the start-scan request and answered with
\* the not-found signal does not end the invocation with an error.
C24_NotFoundPollRetried ==
  ~(/\ FailedWith("TypeError")
    /\ Calls("startImageScan") = 1
    /\ Calls("poll") >= 1
    /\ Calls("page") = 0)

\* C25: no wait comes before the first poll, one wait comes between two polls
\* that follow each other, and a wait is made only after a poll that returned
\* an in-progress status.
C25_WaitsBetweenPolls ==
  /\ \A i \in 1..Len(trace) :
       /\ trace[i] = "poll" =>
            IF \E j \in 1..(i - 1) : trace[j] = "poll"
            THEN trace[i - 1] = "setTimeout" /\ trace[i - 2] = "poll"
            ELSE trace[i - 1] # "setTimeout"
       /\ trace[i] = "setTimeout" =>
            /\ i > 1
            /\ trace[i - 1] = "poll"
            /\ IF i = Len(trace) THEN pc = "poll" ELSE trace[i + 1] = "poll"
  /\ pc = "sleep" => (status = "IN_PROGRESS" /\ ~firstPoll /\ trace[Len(trace)] = "poll")
  /\ (pc = "poll" /\ trace[Len(trace)] = "setTimeout") => status = "IN_PROGRESS"

C25_Witness ==
  /\ Calls("poll") = 3
  /\ Calls("setTimeout") = 2
  /\ status = "COMPLETE"
  /\ pc = "sanity"

\* C26: when the first status query returns a complete snapshot, no start-scan
\* request, wait or poll follows, and the counts aggregated are those of that
\* snapshot.
C26_CompleteScanIsReused ==
  (firstAnswer = "snapshot" /\ Calls("poll") = 0 /\ findings.status = "COMPLETE") =>
    /\ pc \notin {"start_scan", "sleep", "poll"}
    /\ Calls("startImageScan") = 0
    /\ Calls("setTimeout") = 0
    /\ Calls("setOutput") = 1 =>
         counted = countsOf(Snapshot("COMPLETE", "", scanned), ignoredFindings)

C26_Witness ==
  /\ firstAnswer = "snapshot"
  /\ Calls("poll") = 0
  /\ Evaluated
  /\ counted.total >= 1
  /\ trace[1] = "describeImageScanFindings"
  /\ trace[2] # "startImageScan"

\* the service has reported a status that is neither pending nor in progress
ServiceSettled == findings.status \notin {"null", "PENDING", "IN_PROGRESS"}

\* main has ended, with one outcome: no error, or one error reported once
Terminated ==
  /\ pc = "exit"
  /\ Calls("setFailed") = (IF Len(failed) = 0 THEN 0 ELSE 1)

\* C27: if the service at some point reports a status other than pending or
\* in progress, the invocation ends, and ends with one outcome: it completes
\* without an error, or reports one error once.
C27_Terminates == (<>ServiceSettled) => <>[]Terminated

C27_Witness ==
  /\ pc = "exit"
  /\ findings.status = "COMPLETE"
  /\ Calls("poll") >= 2
  /\ Calls("page") >= 2
  /\ Calls("setFailed") = 0

\* the names of the outputs main sets
OutputKeys ==
  {"critical", "high", "medium", "low", "informational", "undefined", "ignored", "total"}

\* the errors that end main before it has counted the findings
EarlyErrors ==
  {"fail_threshold input value is invalid", "Image scan failed", "Unhandled scan status",
   IgnoreListError, "ServiceError", "TypeError"}

\* C28: a run that reaches the threshold evaluation has set the six severity
\* counts, the total and the ignored count before it signals the verdict, pass
\* or fail; a run that an earlier error ends has set none of them.
C28_OutputsBeforeVerdict ==
  /\ (pc = "evaluate" \/ Evaluated) =>
       /\ DOMAIN outputs = OutputKeys
       /\ Calls("setOutput") = 1
       /\ pc = "evaluate" => Calls("setFailed") = 0
       /\ FailedWith("Detected vulnerabilities") =>
            /\ trace[Len(trace)] = "setFailed"
            /\ trace[Len(trace) - 1] = "setOutput"
  /\ FailedWith("Detected vulnerabilities") => Evaluated
  /\ \A e \in EarlyErrors :
       FailedWith(e) => (DOMAIN outputs = {} /\ Calls("setOutput") = 0)

C28_Witness ==
  /\ FailedWith("Detected vulnerabilities")
  /\ DOMAIN outputs = OutputKeys
  /\ outputs.ignored = "1"

====
